---- MODULE Spec2Model ----
(***************************************************************************)
(* Model of src/bot.py: one run of TikTokDownloader.download_videos (the   *)
(* batch orchestrator), the ThreadPoolExecutor workers that execute        *)
(* download_single_video under tenacity's retry, the downloads table of    *)
(* DatabaseManager and the Chrome sessions of ChromeManager.               *)
(*                                                                         *)
(* Items are numbered as enumerate(links) numbers them, from 0; the item   *)
(* of index i is links[i + 1].                                             *)
(***************************************************************************)
EXTENDS Integers, Sequences, FiniteSets, TLC

\* ------------------------------------------------------------------ bounds
MaxLinks == 3
MaxWorkers == 2

\* ------------------------------------------------------ program constants
StopAfterAttempt == 2
WaitMultiplier == 1
WaitMin == 2
WaitMax == 5
ProgressEvery == 5

\* -------------------------------------------------------------- the inputs
\* A link "https://www.tiktok.com/@<owner>/video/<vid>": the two parts the
\* code parses out of it.
Owners == {"u1", "u2"}
Vids == {"v1", "v2"}
LinkSeq == << [owner |-> "u1", vid |-> "v1"],
             [owner |-> "u1", vid |-> "v2"],
             [owner |-> "u2", vid |-> "v1"] >>
\* The batches: the first n links of LinkSeq repeated, n up to MaxLinks.
BatchLink(i) == LinkSeq[((i - 1) % Len(LinkSeq)) + 1]
Batches == { [i \in 1 .. n |-> BatchLink(i)] : n \in 0 .. MaxLinks }
Statuses == {"none", "success", "failed"}
ChatIds == {"None", "chat"}

VARIABLES
    links,          \* the argument links
    chat_id,        \* the argument chat_id ("None": no notification sink)
    max_workers,    \* config "max_workers"
    ledger,         \* the downloads table: video_id -> status of its record
    files,          \* owner -> number of files in save_dir of that owner
    pc,             \* where download_videos is
    pool,           \* "pending", "ready" (drivers is bound) or "failed"
    drivers,        \* the sessions created so far, each "open", "quit", "quitfail"
    index,          \* the submission loop's index
    task,           \* per item: its future and what was done for it
    success_count,
    fail_count,
    failed_links,
    notes,          \* notifications sent: start, progress, final
    table,          \* the downloads table row by row (SpecLedger)
    clock,          \* the times of submissions and task starts (SpecTimed)
    scrape          \* one run of scrape_user (SpecScrape)

batchVars == << links, chat_id, max_workers, ledger, files, pc, pool, drivers,
                index, task, success_count, fail_count, failed_links, notes >>
vars == << links, chat_id, max_workers, ledger, files, pc, pool, drivers,
           index, task, success_count, fail_count, failed_links, notes,
           table, clock, scrape >>

\* ----------------------------------------------------------------- helpers
Max(a, b) == IF a >= b THEN a ELSE b
Min(a, b) == IF a <= b THEN a ELSE b

RECURSIVE Pow2(_)
Pow2(n) == IF n <= 0 THEN 1 ELSE 2 * Pow2(n - 1)

total == Len(links)
Items == 0 .. (total - 1)
LinkOf(i) == links[i + 1]

\* video_id = link.split('/')[-1].split('?')[0]
VideoId(link) == link.vid
\* username = link.split('@')[1].split('/')[0]
Username(link) == link.owner

NoTask == [ st |-> "none", driver |-> -1, attempts |-> 0, before |-> 0,
            waited |-> 0, used |-> {}, okCalls |-> 0, failCalls |-> 0,
            counted |-> "no", exam |-> "none" ]

\* wait_exponential(multiplier=1, min=2, max=5) after attempt number n
WaitExponential(n) == Max(Max(0, WaitMin), Min(WaitMultiplier * Pow2(n - 1), WaitMax))

\* stop_after_attempt(2)
ShouldStop_OffByOne(n) == n > StopAfterAttempt
ShouldStop(n) == n >= StopAfterAttempt

\* DatabaseManager.is_already_downloaded: a storage error answers False
IsAlreadyDownloaded_WrongStatus(vid, err) == (~err) /\ ledger[vid] = "failed"
IsAlreadyDownloaded(vid, err) == (~err) /\ ledger[vid] = "success"

\* What the submission loop met when it examined an item: the id recorded as
\* success and read ("done"), recorded as success and the read failed
\* ("unread"), or not recorded as success ("todo").
Examined(vid, err) ==
    IF ledger[vid] = "success" THEN (IF err THEN "unread" ELSE "done") ELSE "todo"

\* DatabaseManager.mark_as_downloaded: INSERT OR REPLACE; a storage error is
\* logged and the table is left as it was
MarkAsDownloaded(vid, status, err) ==
    IF err THEN ledger ELSE [ledger EXCEPT ![vid] = status]

\* drivers[index % max_workers]
AssignDriver_Next(i) == (i + 1) % max_workers
AssignDriver_Zero(i) == 0
AssignDriver(i) == i % max_workers

\* The executions in flight: started on a worker thread and not yet finished
\* (the backoff sleep between two attempts included).
InFlight == { i \in Items : task[i].st \in {"running", "backoff"} }
Queued == { i \in Items : task[i].st = "queued" }
Finished == { i \in Items : task[i].st \in {"ok", "failed"} }

\* ThreadPoolExecutor(max_workers=max_workers): a worker thread is free
WorkerAvailable_Unbounded == TRUE
WorkerAvailable == Cardinality(InFlight) < max_workers

Notify(kind) ==
    IF chat_id # "None" THEN [notes EXCEPT ![kind] = @ + 1] ELSE notes

\* The parts of the state that one batch without a clock leaves alone.
NoTable == [rows |-> {}]
NoClock == [now |-> 0]
NoScrape == [pc |-> "off"]
Aside == UNCHANGED << table, clock, scrape >>

\* -------------------------------------------------------------------- Init
Init ==
    /\ links \in Batches
    /\ chat_id \in ChatIds
    /\ max_workers \in 1 .. MaxWorkers
    /\ ledger \in [Vids -> Statuses]
    /\ files = [o \in Owners |-> 0]
    /\ pc = "begin"
    /\ pool = "pending"
    /\ drivers = << >>
    /\ index = 0
    /\ task = [i \in 0 .. (Len(links) - 1) |-> NoTask]
    /\ success_count = 0
    /\ fail_count = 0
    /\ failed_links = << >>
    /\ notes = [start |-> 0, progress |-> 0, final |-> 0]
    /\ table = NoTable
    /\ clock = NoClock
    /\ scrape = NoScrape

\* ------------------------------------------------- download_videos, main thread
\* lines 285-291: the counters and the start notification
Begin ==
    /\ pc = "begin"
    /\ notes' = Notify("start")
    /\ pc' = "create"
    /\ UNCHANGED << links, chat_id, max_workers, ledger, files, pool, drivers,
                    index, task, success_count, fail_count, failed_links >>

AfterSubmit(n) == IF n >= total THEN "collect" ELSE "submit"

\* line 295: one more create_driver of the list comprehension succeeds; after
\* the last one drivers is bound and the executor is entered
CreateDriver ==
    /\ pc = "create"
    /\ Len(drivers) < max_workers
    /\ drivers' = Append(drivers, "open")
    /\ IF Len(drivers') = max_workers
       THEN pool' = "ready" /\ pc' = AfterSubmit(0)
       ELSE UNCHANGED << pool, pc >>
    /\ UNCHANGED << links, chat_id, max_workers, ledger, files, index, task,
                    success_count, fail_count, failed_links, notes >>

\* line 295 with create_driver raising (lines 187-189): the finally block runs
\* with drivers unbound, so line 335 raises and nothing after it is executed
CreateDriverFail_Swallow ==
    /\ pc = "create"
    /\ Len(drivers) < max_workers
    /\ pool' = "failed"
    /\ pc' = AfterSubmit(0)
    /\ UNCHANGED << links, chat_id, max_workers, ledger, files, drivers, index,
                    task, success_count, fail_count, failed_links, notes >>

CreateDriverFail ==
    /\ pc = "create"
    /\ Len(drivers) < max_workers
    /\ pool' = "failed"
    /\ pc' = "raised"
    /\ UNCHANGED << links, chat_id, max_workers, ledger, files, drivers, index,
                    task, success_count, fail_count, failed_links, notes >>

\* lines 300-319: one iteration of the submission loop
SubmitItem ==
    /\ pc = "submit"
    /\ index < total
    /\ \E err \in BOOLEAN :
         LET vid == VideoId(LinkOf(index))
             seen == [task[index] EXCEPT !.exam = Examined(vid, err)]
         IN IF IsAlreadyDownloaded(vid, err)
            THEN /\ success_count' = success_count + 1
                 /\ task' = [task EXCEPT ![index] =
                                [seen EXCEPT !.st = "skipped", !.counted = "ok"]]
            ELSE /\ task' = [task EXCEPT ![index] =
                                [seen EXCEPT !.st = "queued",
                                             !.driver = AssignDriver(index)]]
                 /\ UNCHANGED success_count
    /\ index' = index + 1
    /\ pc' = AfterSubmit(index + 1)
    /\ UNCHANGED << links, chat_id, max_workers, ledger, files, pool, drivers,
                    fail_count, failed_links, notes >>

\* line 307: os.makedirs raises (a name too long, no permission, disk full);
\* the exception leaves the loop and the with block
SubmitRaise ==
    /\ pc = "submit"
    /\ index < total
    /\ pc' = "aborted"
    /\ UNCHANGED << links, chat_id, max_workers, ledger, files, pool, drivers,
                    index, task, success_count, fail_count, failed_links, notes >>

\* line 326: success_count % 5 == 0
ProgressDue_Always(n) == TRUE
ProgressDue(n) == n % ProgressEvery = 0

\* lines 321-333: as_completed yields a finished future
Collect(i) ==
    /\ pc = "collect"
    /\ i \in Finished
    /\ task[i].counted = "no"
    /\ IF task[i].st = "ok"
       THEN /\ success_count' = success_count + 1
            /\ notes' = IF ProgressDue(success_count + 1)
                        THEN Notify("progress") ELSE notes
            /\ task' = [task EXCEPT ![i].counted = "ok"]
            /\ UNCHANGED << fail_count, failed_links, ledger >>
       ELSE /\ fail_count' = fail_count + 1
            /\ failed_links' = Append(failed_links, LinkOf(i))
            /\ \E err \in BOOLEAN :
                 ledger' = MarkAsDownloaded(VideoId(LinkOf(i)), "failed", err)
            /\ task' = [task EXCEPT ![i].counted = "failed",
                                    ![i].failCalls = @ + 1]
            /\ UNCHANGED << success_count, notes >>
    /\ UNCHANGED << links, chat_id, max_workers, files, pc, pool, drivers, index >>

\* line 297, leaving the with block: shutdown(wait=True) returns once every
\* submitted task has finished
ExitExecutor_NoWait ==
    /\ \/ pc = "collect" /\ \A i \in Items : task[i].counted # "no"
       \/ pc = "aborted"
    /\ pc' = "teardown"
    /\ UNCHANGED << links, chat_id, max_workers, ledger, files, pool, drivers,
                    index, task, success_count, fail_count, failed_links, notes >>

ExitExecutor ==
    /\ \/ pc = "collect" /\ \A i \in Items : task[i].counted # "no"
       \/ pc = "aborted" /\ InFlight = {} /\ Queued = {}
    /\ pc' = "teardown"
    /\ UNCHANGED << links, chat_id, max_workers, ledger, files, pool, drivers,
                    index, task, success_count, fail_count, failed_links, notes >>

OpenDrivers == { d \in 1 .. Len(drivers) : drivers[d] = "open" }

\* lines 335-339: quit the next driver, an exception of quit is suppressed
QuitDriver ==
    /\ pc = "teardown"
    /\ OpenDrivers # {}
    /\ LET d == CHOOSE x \in OpenDrivers : \A y \in OpenDrivers : x <= y
       IN \E raises \in BOOLEAN :
            drivers' = [drivers EXCEPT ![d] = IF raises THEN "quitfail" ELSE "quit"]
    /\ UNCHANGED << links, chat_id, max_workers, ledger, files, pc, pool, index,
                    task, success_count, fail_count, failed_links, notes >>

\* lines 341-351: the final notification and the return
FinalNotify ==
    /\ pc = "teardown"
    /\ OpenDrivers = {}
    /\ notes' = Notify("final")
    /\ pc' = "done"
    /\ UNCHANGED << links, chat_id, max_workers, ledger, files, pool, drivers,
                    index, task, success_count, fail_count, failed_links >>

\* ------------------------------------------- the executor's worker threads
Running == pc \in {"submit", "collect", "aborted"}

\* a free worker thread takes the oldest queued task and starts its first
\* attempt: line 211 counts the files of save_dir
StartTask(i) ==
    /\ Running
    /\ i \in Queued
    /\ \A j \in Queued : i <= j
    /\ WorkerAvailable
    /\ task' = [task EXCEPT ![i].st = "running",
                            ![i].attempts = 1,
                            ![i].before = files[Username(LinkOf(i))],
                            ![i].used = @ \cup {task[i].driver}]
    /\ UNCHANGED << links, chat_id, max_workers, ledger, files, pc, pool, drivers,
                    index, success_count, fail_count, failed_links, notes >>

\* lines 213-251: the rest of one attempt. A step of the protocol raises
\* ("raise"), or the last click is reached and the resolution surface deposits
\* no file ("nofile") or one ("file"); line 243 compares the counts.
FinishAttempt(i) ==
    /\ Running
    /\ task[i].st = "running"
    /\ \E out \in {"raise", "nofile", "file"}, err \in BOOLEAN :
         LET o == Username(LinkOf(i))
             after == files[o] + (IF out = "file" THEN 1 ELSE 0)
         IN /\ files' = [files EXCEPT ![o] = after]
            /\ IF out # "raise" /\ after > task[i].before
               THEN /\ ledger' = MarkAsDownloaded(VideoId(LinkOf(i)), "success", err)
                    /\ task' = [task EXCEPT ![i].st = "ok", ![i].before = 0,
                                            ![i].okCalls = @ + 1]
               ELSE /\ err = FALSE
                    /\ ledger' = ledger
                    /\ task' = [task EXCEPT ![i].st =
                                   IF ShouldStop(task[i].attempts)
                                   THEN "failed" ELSE "backoff",
                                 ![i].before = 0,
                                 ![i].waited =
                                   IF ShouldStop(task[i].attempts)
                                   THEN @ ELSE WaitExponential(task[i].attempts)]
    /\ UNCHANGED << links, chat_id, max_workers, pc, pool, drivers, index,
                    success_count, fail_count, failed_links, notes >>

\* tenacity calls download_single_video again, with the same arguments
Retry(i) ==
    /\ Running
    /\ task[i].st = "backoff"
    /\ task' = [task EXCEPT ![i].st = "running",
                            ![i].attempts = @ + 1,
                            ![i].before = files[Username(LinkOf(i))],
                            ![i].used = @ \cup {task[i].driver}]
    /\ UNCHANGED << links, chat_id, max_workers, ledger, files, pc, pool, drivers,
                    index, success_count, fail_count, failed_links, notes >>

Next ==
    \/ Begin /\ Aside
    \/ CreateDriver /\ Aside
    \/ CreateDriverFail /\ Aside
    \/ SubmitItem /\ Aside
    \/ SubmitRaise /\ Aside
    \/ \E i \in Items : Collect(i) /\ Aside
    \/ ExitExecutor /\ Aside
    \/ QuitDriver /\ Aside
    \/ FinalNotify /\ Aside
    \/ \E i \in Items : StartTask(i) /\ Aside
    \/ \E i \in Items : FinishAttempt(i) /\ Aside
    \/ \E i \in Items : Retry(i) /\ Aside

Spec == Init /\ [][Next]_vars

\* ------------------------------- SpecReliable: a batch with no storage error
\* The same batch when no Ledger call meets a storage error: the read of line
\* 309 is answered from the table and the writes of lines 244 and 332 reach it.
SubmitItemReliable ==
    /\ SubmitItem
    /\ task'[index].exam # "unread"

CollectReliable(i) ==
    /\ Collect(i)
    /\ task'[i].counted = "failed" => ledger'[VideoId(LinkOf(i))] = "failed"

FinishAttemptReliable(i) ==
    /\ FinishAttempt(i)
    /\ task'[i].st = "ok" => ledger'[VideoId(LinkOf(i))] = "success"

NextReliable ==
    \/ Begin /\ Aside
    \/ CreateDriver /\ Aside
    \/ CreateDriverFail /\ Aside
    \/ SubmitItemReliable /\ Aside
    \/ SubmitRaise /\ Aside
    \/ \E i \in Items : CollectReliable(i) /\ Aside
    \/ ExitExecutor /\ Aside
    \/ QuitDriver /\ Aside
    \/ FinalNotify /\ Aside
    \/ \E i \in Items : StartTask(i) /\ Aside
    \/ \E i \in Items : FinishAttemptReliable(i) /\ Aside
    \/ \E i \in Items : Retry(i) /\ Aside

SpecReliable == Init /\ [][NextReliable]_vars

\* ------------------------- SpecProgress: a batch long enough for a progress
\* One worker and as many links as line 326 counts between two progress
\* notifications, so that succeeded can reach the first multiple.
InitProgress ==
    /\ links = [i \in 1 .. ProgressEvery |-> BatchLink(i)]
    /\ chat_id \in ChatIds
    /\ max_workers = 1
    /\ ledger \in [Vids -> {"none", "success"}]
    /\ files = [o \in Owners |-> 0]
    /\ pc = "begin"
    /\ pool = "pending"
    /\ drivers = << >>
    /\ index = 0
    /\ task = [i \in 0 .. (Len(links) - 1) |-> NoTask]
    /\ success_count = 0
    /\ fail_count = 0
    /\ failed_links = << >>
    /\ notes = [start |-> 0, progress |-> 0, final |-> 0]
    /\ table = NoTable
    /\ clock = NoClock
    /\ scrape = NoScrape

SpecProgress == InitProgress /\ [][Next]_vars

\* ------------------------------- SpecTimed: the batch with the wall clock
\* Time is counted in seconds. clock keeps the time elapsed since the last
\* executor.submit and since the last start of a task, each capped at the
\* throttle interval, and the rest of the tenacity wait of each item.
TimedLinks == 3

\* line 57 / line 319: delay_between_downloads
DelayBetweenDownloads == 3

\* line 319: time.sleep returns once the interval has elapsed
Awake_NoSleep == TRUE
Awake == clock.sinceSubmit >= DelayBetweenDownloads

InitTimed ==
    /\ links = [i \in 1 .. TimedLinks |-> BatchLink(i)]
    /\ chat_id = "None"
    /\ max_workers \in 1 .. MaxWorkers
    /\ ledger = [v \in Vids |-> "none"]
    /\ files = [o \in Owners |-> 0]
    /\ pc = "begin"
    /\ pool = "pending"
    /\ drivers = << >>
    /\ index = 0
    /\ task = [i \in 0 .. (Len(links) - 1) |-> NoTask]
    /\ success_count = 0
    /\ fail_count = 0
    /\ failed_links = << >>
    /\ notes = [start |-> 0, progress |-> 0, final |-> 0]
    /\ table = NoTable
    /\ clock = [sinceSubmit |-> DelayBetweenDownloads,
                sinceStart |-> DelayBetweenDownloads,
                wait |-> [i \in 0 .. (Len(links) - 1) |-> 0]]
    /\ scrape = NoScrape

Untimed == UNCHANGED << table, clock, scrape >>

\* lines 300-319: one turn of the submission loop; the sleep of line 319
\* follows executor.submit only (the skip of lines 309-311 continues at once)
TimedSubmitItem ==
    /\ Awake
    /\ SubmitItem
    /\ clock' = IF task'[index].st = "queued"
                THEN [clock EXCEPT !.sinceSubmit = 0] ELSE clock
    /\ UNCHANGED << table, scrape >>

\* line 307 raising, reached once the sleep of the previous turn is over
TimedSubmitRaise ==
    /\ Awake
    /\ SubmitRaise
    /\ Untimed

\* a worker thread takes the task from the executor's queue
TimedStartTask(i) ==
    /\ StartTask(i)
    /\ clock' = [clock EXCEPT !.sinceStart = 0]
    /\ UNCHANGED << table, scrape >>

\* line 208: after a failed attempt tenacity sleeps wait_exponential
TimedFinishAttempt(i) ==
    /\ FinishAttempt(i)
    /\ clock' = IF task'[i].st = "backoff"
                THEN [clock EXCEPT !.wait[i] = task'[i].waited] ELSE clock
    /\ UNCHANGED << table, scrape >>

TimedRetry(i) ==
    /\ clock.wait[i] = 0
    /\ Retry(i)
    /\ Untimed

\* lines 321-333: the completion loop starts after the last sleep
TimedCollect(i) ==
    /\ Awake
    /\ Collect(i)
    /\ Untimed

TimedExitExecutor ==
    /\ pc = "collect" => Awake
    /\ ExitExecutor
    /\ Untimed

\* one second passes; an idle worker thread takes a queued task at once
Tick ==
    /\ ~(Running /\ Queued # {} /\ WorkerAvailable)
    /\ clock' = [sinceSubmit |-> Min(clock.sinceSubmit + 1, DelayBetweenDownloads),
                 sinceStart |-> Min(clock.sinceStart + 1, DelayBetweenDownloads),
                 wait |-> [i \in DOMAIN clock.wait |-> Max(clock.wait[i] - 1, 0)]]
    /\ clock' # clock
    /\ UNCHANGED batchVars
    /\ UNCHANGED << table, scrape >>

NextTimed ==
    \/ Begin /\ Untimed
    \/ CreateDriver /\ Untimed
    \/ CreateDriverFail /\ Untimed
    \/ TimedSubmitItem
    \/ TimedSubmitRaise
    \/ \E i \in Items : TimedStartTask(i)
    \/ \E i \in Items : TimedFinishAttempt(i)
    \/ \E i \in Items : TimedRetry(i)
    \/ \E i \in Items : TimedCollect(i)
    \/ TimedExitExecutor
    \/ QuitDriver /\ Untimed
    \/ FinalNotify /\ Untimed
    \/ Tick

SpecTimed == InitTimed /\ [][NextTimed]_vars

\* ------------------------------------ SpecScrape: scrape_user (lines 253-282)
\* An href is a sequence of pieces of text in which "?" stands for the
\* character itself; the empty sequence is an anchor without href. The profile
\* is the sequence of anchor sets the page shows after each scroll; the last
\* one stays.
MaxScroll == 3
MaxPages == 2

Hrefs == { << >>, << "v1" >>, << "v1", "?", "x" >>, << "v2", "?", "y", "?", "z" >> }
Profiles == UNION { [1 .. n -> SUBSET Hrefs] : n \in 1 .. MaxPages }

\* str.split(sep): the pieces between the occurrences of sep
RECURSIVE Split(_, _)
Split(s, sep) ==
    IF \A k \in 1 .. Len(s) : s[k] # sep
    THEN << s >>
    ELSE LET k == CHOOSE k \in 1 .. Len(s) :
                     s[k] = sep /\ \A j \in 1 .. (k - 1) : s[j] # sep
         IN << SubSeq(s, 1, k - 1) >> \o Split(SubSeq(s, k + 1, Len(s)), sep)

\* line 271: href.split("?")[0]
StripQuery_Whole(href) == href
StripQuery(href) == Split(href, "?")[1]

\* lines 268-271: the hrefs of a set of anchors, added to found_links
Collected(anchors) == { StripQuery(h) : h \in { a \in anchors : a # << >> } }

\* line 267: the anchors find_elements sees at iteration it (0-based)
Dom(it) == scrape.pages[Min(it + 1, Len(scrape.pages))]

\* line 276: list(found_links), in whatever order the set iterates
ListOf(S) == { q \in [1 .. Cardinality(S) -> S] :
                 \A a, b \in 1 .. Cardinality(S) : q[a] = q[b] => a = b }

InitScrape ==
    /\ links = << >>
    /\ chat_id = "None"
    /\ max_workers = 1
    /\ ledger = [v \in Vids |-> "none"]
    /\ files = [o \in Owners |-> 0]
    /\ pc = "begin"
    /\ pool = "pending"
    /\ drivers = << >>
    /\ index = 0
    /\ task = << >>
    /\ success_count = 0
    /\ fail_count = 0
    /\ failed_links = << >>
    /\ notes = [start |-> 0, progress |-> 0, final |-> 0]
    /\ table = NoTable
    /\ clock = NoClock
    /\ \E pages \in Profiles, n \in 0 .. MaxScroll :
         scrape = [pc |-> "create", pages |-> pages, scroll_count |-> n,
                   it |-> 0, found_links |-> {}, driver |-> "None",
                   failed |-> FALSE, result |-> << >>, outcome |-> "none"]

ScrapeFrame == UNCHANGED << links, chat_id, max_workers, ledger, files, pc,
                            pool, drivers, index, task, success_count,
                            fail_count, failed_links, notes, table, clock >>

\* lines 277-279: except Exception: return []
Except(found) == [scrape EXCEPT !.found_links = found, !.failed = TRUE,
                                !.result = << >>, !.pc = "finally"]

\* line 256
ScrapeCreateDriver ==
    /\ scrape.pc = "create"
    /\ scrape' = [scrape EXCEPT !.driver = "open", !.pc = "get"]
    /\ ScrapeFrame

\* line 256: create_driver raises, driver stays None
ScrapeCreateDriverFail ==
    /\ scrape.pc = "create"
    /\ scrape' = Except(scrape.found_links)
    /\ ScrapeFrame

\* lines 260-266
ScrapeGet ==
    /\ scrape.pc = "get"
    /\ scrape' = [scrape EXCEPT !.pc = IF scrape.scroll_count > 0
                                       THEN "find" ELSE "return"]
    /\ ScrapeFrame

\* line 260: driver.get raises
ScrapeGetFail ==
    /\ scrape.pc = "get"
    /\ scrape' = Except(scrape.found_links)
    /\ ScrapeFrame

\* lines 267-271
ScrapeFind ==
    /\ scrape.pc = "find"
    /\ scrape' = [scrape EXCEPT !.found_links = @ \cup Collected(Dom(scrape.it)),
                                !.pc = "scroll"]
    /\ ScrapeFrame

\* lines 267-271: find_elements raises, or get_attribute raises on a stale
\* anchor after some of the hrefs were added
ScrapeFindFail ==
    /\ scrape.pc = "find"
    /\ \E seen \in SUBSET Dom(scrape.it) :
         /\ seen # Dom(scrape.it)
         /\ scrape' = Except(scrape.found_links \cup Collected(seen))
    /\ ScrapeFrame

\* lines 272-273, and the for of line 266
ScrapeScroll ==
    /\ scrape.pc = "scroll"
    /\ scrape' = [scrape EXCEPT !.it = @ + 1,
                                !.pc = IF scrape.it + 1 < scrape.scroll_count
                                       THEN "find" ELSE "return"]
    /\ ScrapeFrame

\* line 272: execute_script raises
ScrapeScrollFail ==
    /\ scrape.pc = "scroll"
    /\ scrape' = Except(scrape.found_links)
    /\ ScrapeFrame

\* line 276
ScrapeReturn ==
    /\ scrape.pc = "return"
    /\ \E q \in ListOf(scrape.found_links) :
         scrape' = [scrape EXCEPT !.result = q, !.pc = "finally"]
    /\ ScrapeFrame

\* lines 280-282: finally: if driver: driver.quit()
ScrapeFinally ==
    /\ scrape.pc = "finally"
    /\ \/ /\ scrape.driver = "None"
          /\ scrape' = [scrape EXCEPT !.outcome = "returned", !.pc = "end"]
       \/ /\ scrape.driver = "open"
          /\ scrape' = [scrape EXCEPT !.driver = "quit", !.outcome = "returned",
                                      !.pc = "end"]
       \/ /\ scrape.driver = "open"
          /\ scrape' = [scrape EXCEPT !.driver = "quitfail", !.outcome = "raised",
                                      !.result = << >>, !.pc = "end"]
    /\ ScrapeFrame

NextScrape ==
    \/ ScrapeCreateDriver
    \/ ScrapeCreateDriverFail
    \/ ScrapeGet
    \/ ScrapeGetFail
    \/ ScrapeFind
    \/ ScrapeFindFail
    \/ ScrapeScroll
    \/ ScrapeScrollFail
    \/ ScrapeReturn
    \/ ScrapeFinally

SpecScrape == InitScrape /\ [][NextScrape]_vars

\* ------------------------------------------- SpecLedger: the downloads table
\* The table of lines 88-98 row by row: id INTEGER PRIMARY KEY, video_id TEXT
\* UNIQUE, status. Every mark_as_downloaded call opens its own connection
\* (line 112); its INSERT takes the database's write lock and its commit
\* (line 119) releases it, so the calls of concurrent tasks are serialised; a
\* call that cannot get the lock, or meets any other storage error, raises
\* inside the try and writes nothing (lines 121-122).
MaxCalls == 4
Writers == {1, 2}
WriteStatuses == {"success", "failed"}

\* a fresh INTEGER PRIMARY KEY: one more than the largest id of the table
NextRowId(rows) ==
    IF rows = {} THEN 1
    ELSE (CHOOSE r \in rows : \A q \in rows : q.id <= r.id).id + 1

\* INSERT OR REPLACE INTO downloads (video_id, ..., status, ...): the row that
\* conflicts on the UNIQUE video_id is deleted and the new row inserted
InsertOrReplace_NoUnique(rows, vid, status) ==
    rows \cup {[id |-> NextRowId(rows), video_id |-> vid, status |-> status]}
InsertOrReplace(rows, vid, status) ==
    { r \in rows : r.video_id # vid }
        \cup {[id |-> NextRowId(rows), video_id |-> vid, status |-> status]}

RowsOf(vid) == { r \in table.rows : r.video_id = vid }

InitLedger ==
    /\ links = << >>
    /\ chat_id = "None"
    /\ max_workers = 1
    /\ ledger = [v \in Vids |-> "none"]
    /\ files = [o \in Owners |-> 0]
    /\ pc = "begin"
    /\ pool = "pending"
    /\ drivers = << >>
    /\ index = 0
    /\ task = << >>
    /\ success_count = 0
    /\ fail_count = 0
    /\ failed_links = << >>
    /\ notes = [start |-> 0, progress |-> 0, final |-> 0]
    /\ table = [rows |-> {}, lock |-> 0,
                pend |-> [w \in Writers |-> << >>],
                lastCall |-> [v \in Vids |-> "none"],
                lastDone |-> [v \in Vids |-> "none"],
                replaced |-> FALSE, calls |-> 0]
    /\ clock = NoClock
    /\ scrape = NoScrape

LedgerFrame ==
    UNCHANGED << links, chat_id, max_workers, files, pc, pool, drivers, index,
                 task, success_count, fail_count, failed_links, notes, clock,
                 scrape >>

\* lines 112-118: writer w executes its INSERT OR REPLACE and holds the lock
RecordExecute(w, vid, status) ==
    /\ table.calls < MaxCalls
    /\ table.pend[w] = << >>
    /\ table.lock = 0
    /\ table' = [table EXCEPT !.lock = w, !.pend[w] = << vid, status >>,
                              !.calls = @ + 1]
    /\ UNCHANGED ledger
    /\ LedgerFrame

\* lines 119-120: the commit; the row is in the table and the lock is free
RecordCommit(w) ==
    /\ table.lock = w
    /\ LET vid == table.pend[w][1]
           status == table.pend[w][2]
       IN /\ table' = [table EXCEPT
                 !.rows = InsertOrReplace(@, vid, status),
                 !.lock = 0,
                 !.pend[w] = << >>,
                 !.lastCall[vid] = status,
                 !.lastDone[vid] = status,
                 !.replaced = @ \/ (status = "success" /\ ledger[vid] = "failed")]
          /\ ledger' = MarkAsDownloaded(vid, status, FALSE)
    /\ LedgerFrame

\* lines 121-122: the call of writer w raises (the database is locked by
\* another writer, or any other storage error); the error is logged
RecordError(w, vid, status) ==
    /\ table.calls < MaxCalls
    /\ table.pend[w] = << >>
    /\ table' = [table EXCEPT !.lastCall[vid] = status, !.calls = @ + 1]
    /\ ledger' = MarkAsDownloaded(vid, status, TRUE)
    /\ LedgerFrame

NextLedger ==
    \/ \E w \in Writers, vid \in Vids, status \in WriteStatuses :
           RecordExecute(w, vid, status)
    \/ \E w \in Writers : RecordCommit(w)
    \/ \E w \in Writers, vid \in Vids, status \in WriteStatuses :
           RecordError(w, vid, status)

SpecLedger == InitLedger /\ [][NextLedger]_vars

\* ------------------------------------------------------------------ claims
Submitted == { i \in Items : task[i].st \notin {"none", "skipped"} }
Skipped == { i \in Items : task[i].st = "skipped" }
Ended == pc \in {"done", "raised"}
\* the rank of item i among the items that were not skipped
Rank(i) == Cardinality({ j \in Submitted : j < i })
AssignedTo(d) == Cardinality({ i \in Submitted : task[i].driver = d })
Balanced ==
    \A d, e \in 0 .. (max_workers - 1) : AssignedTo(d) - AssignedTo(e) <= 1

\* C1: no two protocol executions that are in flight at the same time use
\* the same session (driver).
C1_NoSharedSession ==
    \A i, j \in Items :
        (i # j /\ task[i].st = "running" /\ task[j].st = "running")
            => task[i].driver # task[j].driver

\* C2: in every reachable state of a batch the number of protocol executions
\* in flight (started and not finished, the retry included) is at most
\* max_workers.
C2_PoolSizing == Cardinality(InFlight) <= max_workers

C2_Witness ==
    /\ max_workers = 2
    /\ Cardinality(InFlight) = max_workers
    /\ Queued # {}

\* C3, as stated: every item whose id is recorded as success when the batch
\* examines it is skipped: counted once as succeeded, with no task and no
\* attempt.
C3_SkipWheneverRecorded ==
    \A i \in Items :
        task[i].exam \in {"done", "unread"}
            => task[i].st = "skipped" /\ task[i].attempts = 0

\* C3, amended: every item whose id is recorded as success when the batch
\* examines it, and whose Ledger read does not fail, is skipped: no task is
\* submitted and no attempt is made for it, it is counted as succeeded exactly
\* once, and the step that skips it adds exactly 1 to succeeded and leaves the
\* Ledger as it was.
C3_IdempotentSkip ==
    /\ [](\A i \in Items :
            task[i].exam = "done"
                => /\ task[i].st = "skipped"
                   /\ task[i].attempts = 0
                   /\ task[i].used = {}
                   /\ task[i].okCalls = 0 /\ task[i].failCalls = 0
                   /\ task[i].counted = "ok")
    /\ [][\A i \in Items :
            /\ (task[i].st # "skipped" /\ task'[i].st = "skipped")
                   => /\ success_count' = success_count + 1
                      /\ ledger' = ledger
                      /\ fail_count' = fail_count
            /\ task[i].st = "skipped" => task'[i] = task[i]]_vars

C3_Witness ==
    \E i \in Items :
        /\ task[i].exam = "done"
        /\ task[i].st = "skipped"
        /\ success_count = 1
        /\ pc = "done"

\* C4: when download_videos ends, succeeded + failed equals total, and for
\* an empty input both are 0 and failedItems is empty.
C4_AggregateCorrect ==
    pc = "done" =>
        /\ success_count + fail_count = total
        /\ total = 0 =>
              (success_count = 0 /\ fail_count = 0 /\ failed_links = << >>)

\* C5: every batch ends with exactly one final summary notification when a
\* sink (chat_id) was supplied, and with none when no sink was supplied.
C5_OneFinalNotification ==
    Ended => notes.final = (IF chat_id = "None" THEN 0 ELSE 1)

\* C6: every session created for a batch has been closed (quit called on it)
\* by the time the batch ends.
C6_AllSessionsClosed ==
    Ended => \A d \in 1 .. Len(drivers) : drivers[d] # "open"

\* C7: if a session of the pool cannot be created, no protocol execution is
\* ever started in the batch and the batch writes no Ledger record.
C7_FailFast ==
    pool = "failed" =>
        \A i \in Items :
            /\ task[i].st = "none"
            /\ task[i].attempts = 0
            /\ task[i].okCalls = 0 /\ task[i].failCalls = 0

C7_Witness ==
    /\ pool = "failed"
    /\ pc = "raised"
    /\ total > 0
    /\ Len(drivers) = 1

C9_AssignmentDeterminism ==
    \A i \in Items : task[i].used \subseteq {i % max_workers}

C9_Witness ==
    \E i \in Items :
        /\ max_workers = 2
        /\ i >= max_workers
        /\ task[i].attempts = 2
        /\ task[i].used = {i % max_workers}

\* C10, as stated: the r-th item that remains after the Ledger skip is
\* assigned to session r mod max_workers, so the numbers of items assigned to
\* any two sessions differ by at most one.
C10_RoundRobinOverRemaining ==
    /\ \A i \in Submitted : task[i].driver = Rank(i) % max_workers
    /\ Balanced

\* C10, amended: an item that remains after the Ledger skip is assigned to
\* session i mod max_workers, i its index in the submitted list (the skipped
\* items counted); the numbers of items assigned to any two sessions differ
\* by at most one when no item of the batch was skipped.
C10_RoundRobinByListIndex ==
    /\ \A i \in Submitted : task[i].driver = i % max_workers
    /\ Skipped = {} => Balanced

C10_Witness ==
    \E i \in Submitted :
        /\ \E j \in Skipped : j < i
        /\ task[i].driver = i % max_workers
        /\ task[i].driver # Rank(i) % max_workers

\* ------------------------------------------------------- claims C11 .. C20
\* how many times the link of item i stands in failed_links
TimesListed(link) ==
    Cardinality({ n \in 1 .. Len(failed_links) : failed_links[n] = link })
FailedItems == { i \in Items : task[i].st = "failed" }

\* C11: when the batch has ended, every item whose protocol failed after its
\* retries were exhausted was counted in failed exactly once, its link stands
\* in failedItems exactly once (failedItems holds the links of failed items
\* only), and exactly one Ledger write with status failed was made for it; no
\* such write was made for an item that succeeded or was skipped.
C11_ItemFailureHandling ==
    pc = "done" =>
        /\ \A i \in FailedItems :
              /\ task[i].counted = "failed"
              /\ task[i].failCalls = 1
              /\ TimesListed(LinkOf(i)) =
                    Cardinality({ j \in FailedItems : LinkOf(j) = LinkOf(i) })
        /\ fail_count = Cardinality(FailedItems)
        /\ Len(failed_links) = fail_count
        /\ \A i \in Items \ FailedItems : task[i].failCalls = 0

\* C12, as stated: the Ledger holds at most one record per id, and its status
\* is the status passed by the most recent record call for that id.
C12_LastCallWins ==
    \A v \in Vids :
        /\ Cardinality(RowsOf(v)) <= 1
        /\ table.lastCall[v] # "none"
              => \E r \in RowsOf(v) : r.status = table.lastCall[v]

\* C12, amended: after any sequence and interleaving of record calls the
\* Ledger holds at most one record per id, and its status is the status passed
\* by the most recent record call for that id that met no storage error (an id
\* whose calls all met one has no record); a success written after a failed
\* record replaces it.
C12_LedgerUpsert ==
    \A v \in Vids :
        /\ Cardinality(RowsOf(v)) <= 1
        /\ table.lastDone[v] = "none" => RowsOf(v) = {}
        /\ table.lastDone[v] # "none"
              => \E r \in RowsOf(v) : r.status = table.lastDone[v]
        /\ ledger[v] = table.lastDone[v]

C12_Witness ==
    \E v \in Vids :
        /\ table.replaced
        /\ table.lastDone[v] = "success"
        /\ \E r \in RowsOf(v) : r.status = "success" /\ r.id > 1
        /\ table.calls = MaxCalls

\* C13: once the Ledger holds status success for an id, no later operation
\* changes that record's status to failed.
C13_SuccessIsFinal ==
    [][\A v \in Vids : ledger[v] = "success" => ledger'[v] # "failed"]_vars

\* C14: isDone answers true exactly when the id is recorded as success and the
\* read does not fail, so an item whose read failed, or whose id is recorded
\* as failed, is processed and not skipped; and with any pattern of storage
\* errors the batch, when it ends, has processed every item and succeeded +
\* failed equals total.
C14_PersistenceNeverFatal ==
    /\ \A i \in Items :
          /\ task[i].exam = "done" => task[i].st = "skipped"
          /\ task[i].exam \in {"unread", "todo"} => task[i].st \in
                {"queued", "running", "backoff", "ok", "failed"}
    /\ pc = "done" =>
          /\ \A i \in Items : task[i].counted # "no"
          /\ success_count + fail_count = total

DistinctIds ==
    \A i, j \in Items : i # j => VideoId(LinkOf(i)) # VideoId(LinkOf(j))

\* C15 (under SpecReliable, where no storage error occurs): at the end of a
\* batch whose pool was created and whose links have pairwise distinct ids,
\* every submitted item's id has a Ledger record, with status success exactly
\* for the items counted in succeeded and status failed exactly for the items
\* listed in failedItems.
C15_LedgerMatchesCounters ==
    (pc = "done" /\ pool = "ready" /\ DistinctIds) =>
        \A i \in Items :
            LET status == ledger[VideoId(LinkOf(i))]
            IN /\ status # "none"
               /\ status = "success" <=> task[i].counted = "ok"
               /\ status = "failed" <=>
                     (task[i].counted = "failed" /\ TimesListed(LinkOf(i)) = 1)

\* C16, as stated: with a sink, a progress notification has been emitted each
\* time succeeded reached a multiple of 5, so their number is
\* floor(succeeded / 5); without a sink there is none.
C16_ProgressEveryFifth ==
    notes.progress = (IF chat_id = "None" THEN 0 ELSE success_count \div 5)

\* C16, amended: with a sink, a progress notification is emitted exactly when
\* the completion of a task brings succeeded to a multiple of 5; an item
\* skipped because the Ledger has it as success raises succeeded without any
\* notification. So the number of progress notifications is at most
\* floor(succeeded / 5) and equals it when no item was skipped; a failure
\* never triggers one, and none is emitted without a sink.
C16_ProgressOnFifthCompletion ==
    /\ [](/\ notes.progress <= success_count \div 5
          /\ chat_id = "None" => notes.progress = 0
          /\ (chat_id # "None" /\ Skipped = {})
                => notes.progress = success_count \div 5)
    /\ [][/\ notes'.progress # notes.progress
               => /\ notes'.progress = notes.progress + 1
                  /\ chat_id # "None"
                  /\ success_count' = success_count + 1
                  /\ success_count' % 5 = 0
                  /\ fail_count' = fail_count
                  /\ \E i \in Items : /\ task[i].st = "ok"
                                      /\ task[i].counted = "no"
                                      /\ task'[i].counted = "ok"
          /\ (/\ chat_id # "None"
              /\ success_count' = success_count + 1
              /\ success_count' % 5 = 0
              /\ \E i \in Items : task[i].st = "ok" /\ task'[i].counted # task[i].counted)
               => notes'.progress = notes.progress + 1]_vars

C16_Witness ==
    /\ chat_id # "None"
    /\ pc = "done"
    /\ success_count = 5
    /\ notes.progress = 1
    /\ Skipped # {}
    /\ \E i \in Items : task[i].attempts = 2 /\ task[i].counted = "ok"

\* C17, as stated: any two successive task starts (a worker beginning an
\* item's protocol execution) are separated by at least
\* delay_between_downloads.
C17_StartsThrottled ==
    [][\A i \in Items :
          (task[i].st = "queued" /\ task'[i].st = "running")
              => clock.sinceStart >= DelayBetweenDownloads]_vars

\* C17, amended: any two successive submissions to the executor are separated
\* by at least delay_between_downloads, and no task starts before it was
\* submitted; a task that waited in the executor's queue starts as soon as a
\* worker is free, whatever time has passed since the previous start.
C17_SubmissionsThrottled ==
    [][\A i \in Items :
          /\ (task[i].st = "none" /\ task'[i].st = "queued")
                => /\ clock.sinceSubmit >= DelayBetweenDownloads
                   /\ clock'.sinceSubmit = 0
          /\ task'[i].st = "running" => task[i].st # "none"]_vars

C17_Witness ==
    /\ \E i, j \in Items : /\ i < j
                           /\ task[i].st = "running"
                           /\ task[j].st = "queued"
    /\ clock.sinceSubmit = 0
    /\ clock.sinceStart > 0

\* C18: scrape_user never raises; when a step of the enumeration fails it
\* returns the links collected up to that point, and the Session it created
\* is closed on every path.
C18_PartialResultNeverRaises ==
    scrape.pc = "end"
        => /\ scrape.outcome = "returned"
           /\ scrape.failed
                => { scrape.result[k] : k \in 1 .. Len(scrape.result) }
                      = scrape.found_links
           /\ scrape.driver \in {"None", "quit"}

\* the part of an href before its first "?"
BeforeQuery(h) ==
    CHOOSE p \in { SubSeq(h, 1, n) : n \in 0 .. Len(h) } :
        /\ \A k \in 1 .. Len(p) : p[k] # "?"
        /\ Len(p) < Len(h) => h[Len(p) + 1] = "?"

\* the links of a profile once every anchor set it shows has been seen
StableLinks ==
    { BeforeQuery(h) :
        h \in { a \in UNION { scrape.pages[n] : n \in 1 .. Len(scrape.pages) } :
                  a # << >> } }

\* C19: an enumeration that meets no failure performs exactly scroll_count
\* collect-and-scroll iterations, returns each query-stripped link exactly
\* once, and for every scroll_count at or beyond the scroll after which the
\* anchors stop changing returns the same set: the links of all the anchors
\* the profile showed.
C19_DedupStability ==
    (scrape.pc = "end" /\ ~scrape.failed /\ scrape.outcome = "returned")
        => /\ scrape.it = scrape.scroll_count
           /\ \A a, b \in 1 .. Len(scrape.result) :
                  scrape.result[a] = scrape.result[b] => a = b
           /\ \A a \in 1 .. Len(scrape.result) :
                  /\ \A k \in 1 .. Len(scrape.result[a]) : scrape.result[a][k] # "?"
                  /\ \E it \in 0 .. (scrape.scroll_count - 1) :
                        \E h \in Dom(it) : h # << >> /\ scrape.result[a] = BeforeQuery(h)
           /\ scrape.scroll_count >= Len(scrape.pages)
                => { scrape.result[k] : k \in 1 .. Len(scrape.result) } = StableLinks

C19_Witness ==
    /\ scrape.pc = "end"
    /\ ~scrape.failed
    /\ scrape.outcome = "returned"
    /\ Len(scrape.pages) = 2
    /\ scrape.scroll_count > Len(scrape.pages)
    /\ scrape.pages[1] = { << "v1", "?", "x" >> }
    /\ scrape.pages[2] = { << "v1" >>, << "v2", "?", "y", "?", "z" >>, << >> }
    /\ Len(scrape.result) = 2

\* C20: no session is closed while a task bound to it has not terminated, and
\* the final notification (the end of the batch) comes only after every
\* submitted task has terminated and quit has been called on every session of
\* the pool, also when the submission loop raised.
C20_TeardownOrdering ==
    /\ \A i \in InFlight \cup Queued : drivers[task[i].driver + 1] = "open"
    /\ (pc = "done" \/ notes.final > 0)
          => /\ InFlight = {}
             /\ Queued = {}
             /\ Len(drivers) = max_workers
             /\ \A d \in 1 .. Len(drivers) : drivers[d] \in {"quit", "quitfail"}

C20_Witness ==
    /\ pc = "done"
    /\ notes.final = 1
    /\ index < total
    /\ Len(drivers) = 2
    /\ \E i, j \in Items : /\ task[i].st = "ok"
                           /\ task[j].st = "failed"
                           /\ task[i].counted = "no"

\* C21: an item is verified as success only if its own protocol execution
\* deposited at least one new file in its owner's directory: the attempt that
\* ends in success is the step that raised the directory's file count, also
\* when another item of the same owner runs concurrently.
C21_SuccessOnlyWithOwnFile ==
    [][\A i \in Items :
          (task[i].st = "running" /\ task'[i].st = "ok")
              => files'[Username(LinkOf(i))] > files[Username(LinkOf(i))]]_vars

====
